---- MODULE Spec2Model ----
(***************************************************************************)
(* Model of src/text_replacer.py: the TextReplacer key-event handler       *)
(* (on_press, _handle_delimiter, _replace_text), the rule table built by   *)
(* the constructor, the keyboard Controller it injects into and the        *)
(* Listener that feeds injected keys back to on_press.                     *)
(*                                                                         *)
(* Text is a sequence of one-character strings.  Time is counted in ticks  *)
(* of 0.1 s, so the 0.2 s added in _replace_text is IgnoreDelay = 2 ticks. *)
(***************************************************************************)
EXTENDS Integers, Sequences, FiniteSets, TLC

VARIABLES
    mode,          \* which input scenario drives the engine (environment)
    todo,          \* scripted user keys not yet pressed (environment)
    nev,           \* number of user key presses so far (environment)
    replacements,  \* self.replacements: ordered sequence of <<trigger, replacement>>
    buffer,        \* self.buffer
    ignore_until,  \* self._ignore_until
    now,           \* time.time(), in ticks
    emitted,       \* Controller calls made by the most recent on_press call
    loopback,      \* injected key presses the Listener has not delivered yet
    screen,        \* text visible in the focused application
    run,           \* plain characters appended since the last handled delimiter/backspace
    last,          \* the most recent on_press call: its key and the state it saw
    given,         \* the mapping TextReplacer.__init__ was called with
    heard,         \* the text spelled by all keys delivered since the last delimiter
    kept,          \* the text spelled by the keys handled since the last handled delimiter
    plain,         \* number of plain-character keys delivered so far
    leaked         \* whether an injected key was handled outside the suppression window

vars == <<mode, todo, nev, replacements, buffer, ignore_until, now, emitted,
          loopback, screen, run, last, given, heard, kept, plain, leaked>>

(* Bounds of the exploration *)

MaxEvents == 3     \* user key presses in the unscripted scenarios
MaxTime == 3       \* last clock tick explored
MaxLag == 1        \* ticks that may pass between on_press's and _replace_text's clock reads

(* Program constants *)

BACKTRACK_LIMIT == 250
IgnoreDelay == 2

(* Mutant: only the three whitespace characters are delimiters *)
DELIMITERS_Whitespace == {" ", "\n", "\t"}

DELIMITERS == {" ", "\n", "\t", ".", ",", "!", "?", ";", ":", ")", "]", "}"}

(* Keys as pynput hands them to on_press: a Key member has no char         *)
(* attribute (getattr gives None), a KeyCode carries char, maybe None/"".  *)

None == "None"

KeyBackspace == [name |-> "backspace", char |-> None]
KeySpace == [name |-> "space", char |-> None]
KeyEnter == [name |-> "enter", char |-> None]
KeyTab == [name |-> "tab", char |-> None]
KeyShift == [name |-> "shift", char |-> None]
NoKey == [name |-> "none", char |-> None]

KeyCode(c) == [name |-> "keycode", char |-> c]

(* Text helpers: Python slicing and str.endswith *)

(* Mutant: the trigger may occur anywhere in the buffer ("in", not endswith) *)
EndsWith_Contains(s, t) ==
    \E i \in 0..(Len(s) - Len(t)) : SubSeq(s, i + 1, i + Len(t)) = t

Min(a, b) == IF a < b THEN a ELSE b

LastN(s, n) == SubSeq(s, Len(s) - Min(n, Len(s)) + 1, Len(s))

FirstN(s, n) == SubSeq(s, 1, Min(n, Len(s)))

EndsWith(s, t) == Len(t) <= Len(s) /\ LastN(s, Len(t)) = t


(* TextReplacer.__init__, line 47: sorted(items, key=len(trigger), reverse=True). *)
(* Python's sort is stable, also with reverse=True: pairs whose triggers have    *)
(* the same length keep the order of the input mapping.                          *)

(* Mutant: equal lengths are reordered (the new pair goes before its ties) *)
RECURSIVE InsertByLen_Unstable(_, _)
InsertByLen_Unstable(item, sorted) ==
    IF sorted = <<>> THEN <<item>>
    ELSE IF Len(Head(sorted)[1]) > Len(item[1])
         THEN <<Head(sorted)>> \o InsertByLen_Unstable(item, Tail(sorted))
         ELSE <<item>> \o sorted

RECURSIVE InsertByLen(_, _)
InsertByLen(item, sorted) ==
    IF sorted = <<>> THEN <<item>>
    ELSE IF Len(Head(sorted)[1]) >= Len(item[1])
         THEN <<Head(sorted)>> \o InsertByLen(item, Tail(sorted))
         ELSE <<item>> \o sorted

(* Mutant: the table keeps the mapping's insertion order (the sort is lost) *)
SortRules_Unsorted(items) == items

RECURSIVE SortRules(_)
SortRules(items) ==
    IF items = <<>> THEN <<>>
    ELSE InsertByLen(items[Len(items)], SortRules(SubSeq(items, 1, Len(items) - 1)))

(* _handle_delimiter, lines 55-56: index of the first pair, in table order, *)
(* whose trigger the buffer ends with; 0 when the loop falls through.       *)

RECURSIVE FirstMatchFrom(_, _, _)
FirstMatchFrom(table, buf, i) ==
    IF i > Len(table) THEN 0
    ELSE IF EndsWith(buf, table[i][1]) THEN i
    ELSE FirstMatchFrom(table, buf, i + 1)

FindMatch(table, buf) == FirstMatchFrom(table, buf, 1)

(* Controller calls: press/release of Key.backspace, and type(text) *)

PressBackspace == [op |-> "press_backspace", text |-> <<>>]
ReleaseBackspace == [op |-> "release_backspace", text |-> <<>>]
TypeText(text) == [op |-> "type", text |-> text]

BackspacePairs(n) ==
    [k \in 1..(2 * n) |-> IF k % 2 = 1 THEN PressBackspace ELSE ReleaseBackspace]

(* Mutant: the backspaces erase the trigger but not the delimiter *)
ReplaceEvents_TriggerOnly(trigger, replacement, delimiter) ==
    BackspacePairs(Len(trigger))
        \o <<TypeText(replacement)>>
        \o (IF delimiter # <<>> THEN <<TypeText(delimiter)>> ELSE <<>>)

(* Mutant: the delimiter is not typed again after the replacement *)
ReplaceEvents_NoDelimiter(trigger, replacement, delimiter) ==
    BackspacePairs(Len(trigger) + Len(delimiter)) \o <<TypeText(replacement)>>

(* Mutant: the delimiter is typed before the replacement *)
ReplaceEvents_DelimiterFirst(trigger, replacement, delimiter) ==
    BackspacePairs(Len(trigger) + Len(delimiter))
        \o (IF delimiter # <<>> THEN <<TypeText(delimiter)>> ELSE <<>>)
        \o <<TypeText(replacement)>>

(* _replace_text, lines 66-72: the Controller calls, in call order *)

ReplaceEvents(trigger, replacement, delimiter) ==
    BackspacePairs(Len(trigger) + Len(delimiter))
        \o <<TypeText(replacement)>>
        \o (IF delimiter # <<>> THEN <<TypeText(delimiter)>> ELSE <<>>)

(* Mutant: the suppression test is lost *)
Suppressed_Never(t, deadline) == FALSE

(* on_press, line 75 *)
Suppressed(t, deadline) == t < deadline

(* Mutant: backspace leaves the buffer as it is *)
DropLast_Keep(buf) == buf

(* on_press, line 79: buffer[:-1] *)
DropLast(buf) == IF buf = <<>> THEN <<>> ELSE SubSeq(buf, 1, Len(buf) - 1)

(* Mutant: the slice keeps the oldest characters, [:BACKTRACK_LIMIT] *)
AppendChar_KeepOldest(buf, char) == FirstN(buf \o <<char>>, BACKTRACK_LIMIT)

(* Mutant: the character is put in front, (char + buffer) *)
AppendChar_Prepend(buf, char) == LastN(<<char>> \o buf, BACKTRACK_LIMIT)

(* Mutant: the buffer is not truncated *)
AppendChar_NoCap(buf, char) == buf \o <<char>>

(* on_press, line 95: (buffer + char)[-BACKTRACK_LIMIT:] *)
AppendChar(buf, char) == LastN(buf \o <<char>>, BACKTRACK_LIMIT)

(* on_press, lines 82-83: the delimiter text of Key.space, Key.enter, Key.tab *)
DelimiterKeys == {KeySpace, KeyEnter, KeyTab}

KeyDelimiter(key) ==
    IF key = KeySpace THEN <<" ">>
    ELSE IF key = KeyEnter THEN <<"\n">>
    ELSE <<"\t">>

(* Mutant: only None is tested ("if char is None") *)
NoChar_NoneOnly(key) == key.char = None

(* on_press, lines 87-89: getattr(key, "char", None) is None or "" *)
NoChar(key) == key.char = None \/ key.char = ""


(* What the injected events do to the focused application's text, lines 67-72 *)

(* The events' joint effect: erase the last drop characters (as many as    *)
(* there are), then add the text add.                                      *)

DropN(text, n) == SubSeq(text, 1, Len(text) - Min(n, Len(text)))

RECURSIVE Effect(_)
Effect(events) ==
    IF events = <<>> THEN [drop |-> 0, add |-> <<>>]
    ELSE IF Len(events) = 1
    THEN (IF events[1].op = "press_backspace" THEN [drop |-> 1, add |-> <<>>]
          ELSE IF events[1].op = "type" THEN [drop |-> 0, add |-> events[1].text]
          ELSE [drop |-> 0, add |-> <<>>])
    ELSE LET half == Len(events) \div 2
             first == Effect(SubSeq(events, 1, half))
             second == Effect(SubSeq(events, half + 1, Len(events)))
         IN  IF second.drop <= Len(first.add)
             THEN [drop |-> first.drop, add |-> DropN(first.add, second.drop) \o second.add]
             ELSE [drop |-> first.drop + second.drop - Len(first.add), add |-> second.add]

Inject(shown, events) == DropN(shown, Effect(events).drop) \o Effect(events).add

(* The key presses the Listener (line 103) later reports for the injected  *)
(* events: one per backspace press, one per typed character.               *)

KeyOfChar(c) ==
    IF c = " " THEN KeySpace
    ELSE IF c = "\n" THEN KeyEnter
    ELSE IF c = "\t" THEN KeyTab
    ELSE KeyCode(c)

RECURSIVE Echo(_)
Echo(events) ==
    IF events = <<>> THEN <<>>
    ELSE IF Len(events) = 1
    THEN LET e == Head(events) IN
         IF e.op = "press_backspace" THEN <<KeyBackspace>>
         ELSE IF e.op = "type" THEN [i \in 1..Len(e.text) |-> KeyOfChar(e.text[i])]
         ELSE <<>>
    ELSE LET half == Len(events) \div 2 IN
         Echo(SubSeq(events, 1, half)) \o Echo(SubSeq(events, half + 1, Len(events)))

(* What a key the user presses does to the focused application's text *)

TypeKey(shown, key) ==
    IF key = KeyBackspace THEN DropLast(shown)
    ELSE IF key \in DelimiterKeys THEN shown \o KeyDelimiter(key)
    ELSE IF NoChar(key) THEN shown
    ELSE shown \o <<key.char>>

(* A path of on_press that makes no Controller call *)

Quiet(shown, queue) ==
    /\ emitted' = <<>>
    /\ screen' = shown
    /\ loopback' = queue
    /\ UNCHANGED <<ignore_until, now>>

(* Mutant: the deadline is not set (line 64 lost) *)
ReplaceText_NoDeadline(trigger, replacement, delimiter, shown, queue) ==
    \E lag \in 0..MaxLag :
        /\ now + lag <= MaxTime
        /\ now' = now + lag
        /\ ignore_until' = ignore_until
        /\ emitted' = ReplaceEvents(trigger, replacement, delimiter)
        /\ screen' = Inject(shown, emitted')
        /\ loopback' = queue \o Echo(emitted')

(* _replace_text, lines 63-72.  The clock is read again at line 64, lag    *)
(* ticks after on_press read it at line 75.                                *)

ReplaceText(trigger, replacement, delimiter, shown, queue) ==
    \E lag \in 0..MaxLag :
        /\ now + lag <= MaxTime
        /\ now' = now + lag
        /\ ignore_until' = now + lag + IgnoreDelay
        /\ emitted' = ReplaceEvents(trigger, replacement, delimiter)
        /\ screen' = Inject(shown, emitted')
        /\ loopback' = queue \o Echo(emitted')

(* Mutant: the buffer is cleared only when a rule matched (line 61 lost) *)
HandleDelimiter_ClearOnMatch(delimiter, shown, queue) ==
    LET i == FindMatch(replacements, buffer) IN
    IF i # 0
    THEN /\ ReplaceText(replacements[i][1], replacements[i][2], delimiter, shown, queue)
         /\ buffer' = <<>>
    ELSE /\ Quiet(shown, queue)
         /\ buffer' = buffer

(* _handle_delimiter, lines 54-61 *)

HandleDelimiter(delimiter, shown, queue) ==
    LET i == FindMatch(replacements, buffer) IN
    IF i # 0
    THEN /\ ReplaceText(replacements[i][1], replacements[i][2], delimiter, shown, queue)
         /\ buffer' = <<>>
    ELSE /\ Quiet(shown, queue)
         /\ buffer' = <<>>

(* Bookkeeping of the delivered keys, kept apart from the handler's own     *)
(* tests: what kind of key it is, and the text a run of keys spells (a      *)
(* character adds itself, backspace takes the last one away, a delimiter    *)
(* starts over).                                                            *)

KeyKind(key) ==
    IF key.name = "backspace" THEN "backspace"
    ELSE IF key.name \in {"space", "enter", "tab"} THEN "delimiter"
    ELSE IF key.name # "keycode" \/ key.char = None \/ key.char = "" THEN "other"
    ELSE IF key.char \in {" ", "\n", "\t", ".", ",", "!", "?", ";", ":", ")", "]", "}"}
         THEN "delimiter"
    ELSE "plain"

Spell(text, key) ==
    IF KeyKind(key) = "plain" THEN text \o <<key.char>>
    ELSE IF KeyKind(key) = "delimiter" THEN <<>>
    ELSE IF KeyKind(key) = "backspace" /\ text # <<>> THEN SubSeq(text, 1, Len(text) - 1)
    ELSE text

Bookkeeping(key, synthetic) ==
    /\ heard' = Spell(heard, key)
    /\ kept' = IF now < ignore_until THEN kept ELSE Spell(kept, key)
    /\ plain' = IF KeyKind(key) = "plain" THEN plain + 1 ELSE plain
    /\ leaked' = (leaked \/ (synthetic /\ ~(now < ignore_until)))

(* on_press, lines 74-95.  shown is the application's text when the key    *)
(* arrives, queue the injected presses still to be delivered after it.     *)

OnPress(key, synthetic, shown, queue) ==
    /\ last' = [key |-> key, synthetic |-> synthetic,
                time |-> now, before |-> buffer, deadline |-> ignore_until,
                shown |-> shown]
    /\ IF Suppressed(now, ignore_until)
       THEN Quiet(shown, queue) /\ UNCHANGED <<buffer, run>>
       ELSE IF key = KeyBackspace
       THEN Quiet(shown, queue) /\ buffer' = DropLast(buffer) /\ run' = <<>>
       ELSE IF key \in DelimiterKeys
       THEN HandleDelimiter(KeyDelimiter(key), shown, queue) /\ run' = <<>>
       ELSE IF NoChar(key)
       THEN Quiet(shown, queue) /\ UNCHANGED <<buffer, run>>
       ELSE IF key.char \in DELIMITERS
       THEN HandleDelimiter(<<key.char>>, shown, queue) /\ run' = <<>>
       ELSE /\ Quiet(shown, queue)
            /\ buffer' = AppendChar(buffer, key.char)
            /\ run' = run \o <<key.char>>
    /\ Bookkeeping(key, synthetic)
    /\ UNCHANGED <<mode, replacements, given>>

(* The rule mappings handed to the constructor, in insertion order.  Each  *)
(* is a sequence of <<trigger, replacement>> with distinct triggers.        *)

RulesShortFirst ==
    << << <<"a">>, <<"b">> >>,
       << <<"b", "a">>, <<"a", "b">> >> >>

RulesSameLen ==
    << << <<"a", "b">>, <<>> >>,
       << <<"b", "a">>, <<"a", ".">> >> >>

RulesEmptyTrigger ==
    << << <<>>, <<"a">> >>,
       << <<"b">>, <<>> >> >>

RulesBtw ==
    << << <<"b", "t", "w">>, <<"b", "y", " ", "t", "h", "e", " ", "w", "a", "y">> >>,
       << <<"o", "m", "g">>, <<"o", "h", " ", "m", "y", " ", "g", "o", "d">> >> >>

RulesSorry ==
    << << <<"i", "m">>, <<"I", " ", "a", "m">> >>,
       << <<"i", "m", " ", "s", "o", "r", "r", "y">>,
          <<"I", " ", "a", "p", "o", "l", "o", "g", "i", "z", "e">> >> >>

(* A buffer of n plain characters *)

Filled(n) == [i \in 1..n |-> IF i % 3 = 0 THEN "b" ELSE "a"]

RulesLong == << << Filled(BACKTRACK_LIMIT + 1), <<"b">> >> >>

RulesHello ==
    << << <<"l", "o">>, <<"l", "o", "w">> >>,
       << <<"h", "e", "l", "l", "o">>, <<"h", "i">> >> >>

(* The key sequences of the spec's scenarios *)

KeysBtw == <<KeyCode("b"), KeyCode("t"), KeyCode("w"), KeySpace>>

KeysSorry ==
    <<KeyCode("i"), KeyCode("m"), KeySpace, KeyCode("s"), KeyCode("o"),
      KeyCode("r"), KeyCode("r"), KeyCode("y"), KeySpace>>

KeysHello ==
    <<KeyCode("h"), KeyCode("e"), KeyCode("l"), KeyCode("l"), KeyCode("o"),
      KeyBackspace, KeyBackspace, KeySpace>>

(* Start-up, lines 107-129 and 149-165.  A mapping is a sequence of        *)
(* <<key, value>> in dict insertion order; a result is the mapping or a     *)
(* configuration error (ValueError, parser.error).                          *)

Ok(mapping) == [ok |-> TRUE, mapping |-> mapping]

ConfigError == [ok |-> FALSE, mapping |-> <<>>]

(* dict[k] = v: an existing key keeps its position and takes the new value *)
Put(mapping, k, v) ==
    IF \E i \in DOMAIN mapping : mapping[i][1] = k
    THEN [i \in DOMAIN mapping |-> IF mapping[i][1] = k THEN <<k, v>> ELSE mapping[i]]
    ELSE mapping \o << <<k, v>> >>

(* dict.update(other) *)
RECURSIVE Update(_, _)
Update(mapping, other) ==
    IF other = <<>> THEN mapping
    ELSE Update(Put(mapping, other[1][1], other[1][2]), Tail(other))

(* str.strip() *)
Whitespace == {" ", "\n", "\t"}

RECURSIVE Strip(_)
Strip(text) ==
    IF text = <<>> THEN <<>>
    ELSE IF Head(text) \in Whitespace THEN Strip(Tail(text))
    ELSE IF text[Len(text)] \in Whitespace THEN Strip(SubSeq(text, 1, Len(text) - 1))
    ELSE text

(* Index of the first "=" of a --map item, 0 if it has none *)
RECURSIVE EqualsAt(_, _)
EqualsAt(item, i) ==
    IF i > Len(item) THEN 0
    ELSE IF item[i] = "=" THEN i
    ELSE EqualsAt(item, i + 1)

(* parse_mapping_items, lines 107-119 *)
RECURSIVE ParseFrom(_, _)
ParseFrom(items, mapping) ==
    IF items = <<>> THEN Ok(mapping)
    ELSE LET item == Head(items)
             eq == EqualsAt(item, 1)
             trigger == Strip(SubSeq(item, 1, eq - 1))
             replacement == SubSeq(item, eq + 1, Len(item))
         IN  IF eq = 0 THEN ConfigError
             ELSE IF trigger = <<>> THEN ConfigError
             ELSE ParseFrom(Tail(items), Put(mapping, trigger, replacement))

ParseMappingItems(items) == ParseFrom(items, <<>>)

(* load_config, lines 122-129: the "replacements" object of the file with  *)
(* its empty keys left out.                                                *)
RECURSIVE LoadFrom(_, _)
LoadFrom(object, clean) ==
    IF object = <<>> THEN clean
    ELSE IF Head(object)[1] # <<>>
         THEN LoadFrom(Tail(object), Put(clean, Head(object)[1], Head(object)[2]))
         ELSE LoadFrom(Tail(object), clean)

LoadConfig(object) == LoadFrom(object, <<>>)

(* TextReplacer.__init__, lines 44-45 *)
Construct(mapping) == IF mapping = <<>> THEN ConfigError ELSE Ok(mapping)

(* main, lines 153-165: config is the file's "replacements" object (<<>>   *)
(* without --config), items the --map arguments.                           *)
Main(config, items) ==
    LET fromFile == Update(<<>>, LoadConfig(config))
        parsed == ParseMappingItems(items)
    IN  IF items # <<>> /\ ~parsed.ok THEN ConfigError
        ELSE LET merged == IF items # <<>> THEN Update(fromFile, parsed.mapping)
                           ELSE fromFile
             IN  IF merged = <<>> THEN ConfigError ELSE Construct(merged)

(* Input scenarios: "free" presses any keys on an empty buffer, "cap"      *)
(* continues typing on a buffer at the backtrack limit, the others replay  *)
(* a scenario's keys.                                                      *)

Modes == {"free", "cap", "btw", "sorry", "hello"}

Mappings(m) ==
    IF m = "free" THEN {RulesShortFirst, RulesSameLen, RulesEmptyTrigger}
    ELSE IF m = "cap" THEN {RulesShortFirst, RulesLong}
    ELSE IF m = "btw" THEN {RulesBtw}
    ELSE IF m = "sorry" THEN {RulesSorry}
    ELSE {RulesHello}

(* The "replacements" object of a config file and the --map arguments of  *)
(* a command line.                                                          *)

ConfigBlankKeys ==
    << << <<>>, <<"b">> >>,
       << <<" ">>, <<"a">> >> >>

MapShortFirst ==
    << <<"a", "=", "b">>,
       <<" ", "b", "a", " ", "=", "a", "b">> >>

MapBlankTrigger == << <<"a", "=", "b">>, <<" ", "=", "a">> >>

MapNoEquals == << <<"a", "b">> >>

(* How the engine is started: the constructor called with a mapping, or    *)
(* main with a config file and --map arguments.                            *)

StartUps(m) ==
    {[via |-> "constructor", mapping |-> x, config |-> <<>>, items |-> <<>>] :
        x \in Mappings(m) \cup {<<>>}}
    \cup (IF m = "free"
          THEN {[via |-> "main", mapping |-> <<>>, config |-> c, items |-> i] :
                   c \in {<<>>, ConfigBlankKeys},
                   i \in {<<>>, MapShortFirst, MapBlankTrigger, MapNoEquals}}
          ELSE {})

Start(input) ==
    IF input.via = "constructor" THEN Construct(input.mapping)
    ELSE Main(input.config, input.items)

Script(m) ==
    IF m = "btw" THEN KeysBtw
    ELSE IF m = "sorry" THEN KeysSorry
    ELSE IF m = "hello" THEN KeysHello
    ELSE <<>>

StartBuffers(m) ==
    IF m = "cap" THEN {Filled(BACKTRACK_LIMIT - 1), Filled(BACKTRACK_LIMIT)}
    ELSE {<<>>}

FreeKeys(m) ==
    IF m = "free"
    THEN {KeyBackspace, KeySpace, KeyEnter, KeyTab, KeyShift,
          KeyCode("a"), KeyCode("b"), KeyCode("."), KeyCode(None), KeyCode("")}
    ELSE IF m = "cap" THEN {KeyBackspace, KeySpace, KeyCode("a"), KeyCode("b")}
    ELSE {}

NextKeys ==
    IF Script(mode) # <<>>
    THEN (IF todo = <<>> THEN {} ELSE {Head(todo)})
    ELSE (IF nev < MaxEvents THEN FreeKeys(mode) ELSE {})

(* The state after TextReplacer.__init__, lines 41-52 *)

Init ==
    /\ mode \in Modes
    /\ todo = Script(mode)
    /\ nev = 0
    /\ \E input \in StartUps(mode) :
           /\ Start(input).ok
           /\ given = Start(input).mapping
    /\ replacements = SortRules(given)
    /\ buffer \in StartBuffers(mode)
    /\ run = buffer
    /\ screen = buffer
    /\ heard = buffer
    /\ kept = buffer
    /\ plain = Len(buffer)
    /\ leaked = FALSE
    /\ ignore_until = 0
    /\ now = 1
    /\ emitted = <<>>
    /\ loopback = <<>>
    /\ last = [key |-> NoKey, synthetic |-> FALSE, time |-> 0,
               before |-> <<>>, deadline |-> 0, shown |-> <<>>]

(* The user presses a key: the application and the Listener both get it *)

UserPress ==
    \E key \in NextKeys :
        /\ OnPress(key, FALSE, TypeKey(screen, key), loopback)
        /\ nev' = nev + 1
        /\ todo' = IF todo = <<>> THEN todo ELSE Tail(todo)

(* The Listener delivers the oldest injected key press to on_press *)

SyntheticPress ==
    /\ loopback # <<>>
    /\ OnPress(Head(loopback), TRUE, screen, Tail(loopback))
    /\ UNCHANGED <<nev, todo>>

(* Time passes between two callbacks *)

Tick ==
    /\ now < MaxTime
    /\ now' = now + 1
    /\ UNCHANGED <<mode, todo, nev, replacements, buffer, ignore_until, emitted,
                   loopback, screen, run, last, given, heard, kept, plain, leaked>>

Next == UserPress \/ SyntheticPress \/ Tick

Spec == Init /\ [][Next]_vars

(***************************************************************************)
(* Properties.  They read the record of the most recent on_press call     *)
(* (last) and the state it left, and restate the text and timing tests in *)
(* their own terms.                                                        *)
(***************************************************************************)

IsSuffix(t, s) ==
    /\ Len(t) <= Len(s)
    /\ \A k \in 1..Len(t) : s[Len(s) - Len(t) + k] = t[k]

Handled == last.key # NoKey

WasSuppressed == Handled /\ last.time < last.deadline

WasActive == Handled /\ ~(last.time < last.deadline)

DelimiterText(key) ==
    IF key.name = "space" THEN <<" ">>
    ELSE IF key.name = "enter" THEN <<"\n">>
    ELSE IF key.name = "tab" THEN <<"\t">>
    ELSE IF key.name = "keycode" /\ key.char \in DELIMITERS THEN <<key.char>>
    ELSE <<>>

ActiveDelimiter == WasActive /\ DelimiterText(last.key) # <<>>

Trigger(i) == replacements[i][1]

Replacement(i) == replacements[i][2]

SuffixRules == {i \in DOMAIN replacements : IsSuffix(Trigger(i), last.before)}

LongestSuffixRule ==
    CHOOSE i \in SuffixRules : \A j \in SuffixRules : Len(Trigger(j)) <= Len(Trigger(i))

BackspacePresses(events) ==
    Cardinality({k \in DOMAIN events : events[k].op = "press_backspace"})

TypedTexts(events) == {events[k].text : k \in {n \in DOMAIN events : events[n].op = "type"}}

(* Rule i was applied by the last call: its trigger and the delimiter were *)
(* erased and its replacement was typed first.                             *)
Applies(i) ==
    /\ emitted # <<>>
    /\ BackspacePresses(emitted) = Len(Trigger(i)) + Len(DelimiterText(last.key))
    /\ emitted[2 * BackspacePresses(emitted) + 1] = TypeText(Replacement(i))

(* n backspace press/release pairs, then type(r), then type(d) *)
Emission(n, r, d) ==
    [k \in 1..(2 * n + 2) |->
        IF k <= 2 * n THEN (IF k % 2 = 1 THEN PressBackspace ELSE ReleaseBackspace)
        ELSE IF k = 2 * n + 1 THEN TypeText(r)
        ELSE TypeText(d)]

(* C1: when an active delimiter event is handled, the rule applied is the  *)
(* one with the longest trigger among the configured triggers that are a   *)
(* suffix of the buffer; no rule is applied when none is a suffix; a       *)
(* shorter trigger is never applied when a longer one is a suffix too.     *)
C1_LongestSuffixApplied ==
    ActiveDelimiter =>
        IF SuffixRules = {}
        THEN emitted = <<>>
        ELSE /\ Applies(LongestSuffixRule)
             /\ \A j \in SuffixRules :
                    Len(Trigger(j)) < Len(Trigger(LongestSuffixRule)) => ~Applies(j)

C1_Witness ==
    /\ ActiveDelimiter
    /\ Cardinality(SuffixRules) >= 2
    /\ Applies(LongestSuffixRule)
    /\ Len(Trigger(LongestSuffixRule)) = 2

(* C2: with rules im -> I am, im sorry -> I apologize, the keys i, m,      *)
(* space, s, o, r, r, y, space from an empty buffer never type "I am";     *)
(* at the last key the buffer holds "im sorry" and "I apologize" is typed. *)
C2_LongerTriggerTyped ==
    mode = "sorry" =>
        /\ <<"I", " ", "a", "m">> \notin TypedTexts(emitted)
        /\ (todo = <<>> /\ ~last.synthetic) =>
               /\ last.before = <<"i", "m", " ", "s", "o", "r", "r", "y">>
               /\ emitted[Len(emitted) - 1] =
                      TypeText(<<"I", " ", "a", "p", "o", "l", "o", "g", "i", "z", "e">>)

(* C3: a delimiter event that matches a rule (T, R) emits exactly          *)
(* len(T) + len(delimiter) backspace press/release pairs, each press       *)
(* followed by its release, then type(R), then type(delimiter).            *)
C3_EmissionOrder ==
    (ActiveDelimiter /\ SuffixRules # {}) =>
        \E i \in SuffixRules :
            emitted = Emission(Len(Trigger(i)) + Len(DelimiterText(last.key)),
                               Replacement(i), DelimiterText(last.key))

C3_Witness ==
    /\ ActiveDelimiter
    /\ SuffixRules # {}
    /\ Len(emitted) >= 6
    /\ emitted[Len(emitted)].text = <<".">>

ByTheWay == <<"b", "y", " ", "t", "h", "e", " ", "w", "a", "y">>

BtwDone == mode = "btw" /\ todo = <<>> /\ ~last.synthetic

(* C4 as stated: after b, t, w, space the engine has emitted 3 backspaces, *)
(* typed "by the way" and a space, and the visible text is "by the way ".  *)
C4_ThreeBackspaces ==
    BtwDone =>
        /\ emitted = Emission(3, ByTheWay, <<" ">>)
        /\ screen = ByTheWay \o <<" ">>

(* C4 amended: after b, t, w, space the engine has emitted 4 backspaces    *)
(* (the trigger's three characters and the space), typed "by the way" and  *)
(* a space, and the visible text is "by the way ".                         *)
C4_FourBackspaces ==
    BtwDone =>
        /\ emitted = Emission(4, ByTheWay, <<" ">>)
        /\ screen = ByTheWay \o <<" ">>

C4_Witness == BtwDone /\ BackspacePresses(emitted) = 4 /\ screen = ByTheWay \o <<" ">>

(* C5: a key event handled while the clock is strictly before the          *)
(* suppression deadline changes neither the buffer nor the deadline and    *)
(* emits nothing, even when it is a delimiter and a trigger is a suffix    *)
(* of the buffer.                                                          *)
C5_SuppressedDiscarded ==
    WasSuppressed =>
        /\ buffer = last.before
        /\ ignore_until = last.deadline
        /\ emitted = <<>>
        /\ screen = last.shown

C5_Witness ==
    /\ WasSuppressed
    /\ DelimiterText(last.key) # <<>>
    /\ SuffixRules # {}

(* C6: a replacement sets the deadline to its clock reading + 0.2 s, and   *)
(* no injected key that loops back to on_press is handled as user input:   *)
(* each one arrives before the deadline.                                   *)
C6_NoEchoHandled ==
    /\ (Handled /\ emitted # <<>>) =>
           \E lag \in 0..MaxLag : ignore_until = last.time + lag + IgnoreDelay
    /\ (Handled /\ last.synthetic) => last.time < last.deadline

(* C7: after an active delimiter event the buffer is empty, matched or not *)
C7_DelimiterClearsBuffer == ActiveDelimiter => buffer = <<>>

C7_Witness ==
    /\ ActiveDelimiter
    /\ last.before # <<>>
    /\ SuffixRules = {}
    /\ buffer = <<>>

C9_NoMatchNoEffect ==
    (ActiveDelimiter /\ SuffixRules = {}) =>
        /\ emitted = <<>>
        /\ screen = last.shown
        /\ ignore_until = last.deadline
        /\ buffer = <<>>

C9_Witness ==
    /\ ActiveDelimiter
    /\ SuffixRules = {}
    /\ \E i \in DOMAIN replacements, k \in 1..Len(last.before) :
           SubSeq(last.before, 1, k) = Trigger(i)

(* C10: an active backspace removes exactly the last character of a        *)
(* non-empty buffer and leaves an empty one empty, emits nothing and       *)
(* leaves the deadline unchanged; h, e, l, l, o, backspace, backspace,     *)
(* space with no rule matching "hel" performs no replacement and ends      *)
(* with an empty buffer.                                                   *)
C10_Backspace ==
    /\ (WasActive /\ last.key = KeyBackspace) =>
           /\ IF last.before = <<>> THEN buffer = <<>>
              ELSE buffer \o <<last.before[Len(last.before)]>> = last.before
           /\ emitted = <<>>
           /\ ignore_until = last.deadline
    /\ mode = "hello" =>
           /\ emitted = <<>>
           /\ todo = <<>> => (last.before = <<"h", "e", "l">> /\ buffer = <<>>)

C10_Witness ==
    /\ mode = "hello"
    /\ todo = <<>>
    /\ last.key = KeySpace
    /\ screen = <<"h", "e", "l", " ">>

(* C11 as stated: while fewer than 250 plain-character keys have been    *)
(* delivered, the buffer is the text spelled by the keys delivered since   *)
(* the most recent delimiter (characters in order, one trailing character  *)
(* removed per backspace).                                                 *)
C11_AllDeliveredKeys == plain < BACKTRACK_LIMIT => buffer = heard

(* C11 amended: while fewer than 250 plain-character keys have been        *)
(* delivered, the buffer is the text spelled by the keys handled outside   *)
(* the suppression window since the most recent handled delimiter.         *)
C11_HandledKeys == plain < BACKTRACK_LIMIT => buffer = kept

C11_Witness ==
    /\ plain < BACKTRACK_LIMIT
    /\ WasActive
    /\ last.key = KeyBackspace
    /\ Len(last.before) >= 2
    /\ last.before[1] # last.before[2]
    /\ buffer # <<>>

(* C12: no replacement is ever performed for a rule whose trigger is       *)
(* longer than 250 characters.                                             *)
C12_LongTriggerNeverApplied ==
    \A i \in DOMAIN replacements :
        Len(Trigger(i)) > BACKTRACK_LIMIT =>
            /\ ~IsSuffix(Trigger(i), buffer)
            /\ ~IsSuffix(Trigger(i), last.before)
            /\ ~Applies(i)

(* The user has typed all 251 characters of the trigger, then a delimiter *)
C12_Witness ==
    /\ ActiveDelimiter
    /\ \E i \in DOMAIN replacements :
           /\ Len(Trigger(i)) = BACKTRACK_LIMIT + 1
           /\ IsSuffix(last.before, Trigger(i))
           /\ Len(last.before) = BACKTRACK_LIMIT
    /\ emitted = <<>>

Blank(text) == \A k \in DOMAIN text : text[k] \in {" ", "\n", "\t"}

(* C13: the engine only ever runs on a mapping that is not empty and has   *)
(* no trigger that is empty after trimming whitespace (every other start   *)
(* fails with a configuration error).                                      *)
C13_NoBlankTrigger ==
    /\ given # <<>>
    /\ \A i \in DOMAIN given : ~Blank(given[i][1])

PlaceIn(mapping, pair) == CHOOSE i \in DOMAIN mapping : mapping[i] = pair

TableSortedStable ==
    /\ Len(replacements) = Len(given)
    /\ \A i \in DOMAIN given : \E j \in DOMAIN replacements : replacements[j] = given[i]
    /\ \A i, j \in DOMAIN replacements :
           i < j =>
               /\ Len(Trigger(i)) >= Len(Trigger(j))
               /\ Len(Trigger(i)) = Len(Trigger(j)) =>
                      PlaceIn(given, replacements[i]) < PlaceIn(given, replacements[j])

(* C14: the rule table holds exactly the pairs of the input mapping, in    *)
(* order of non-increasing trigger length, triggers of equal length in     *)
(* their input order; no key event modifies it.                            *)
C14_RuleTable == []TableSortedStable /\ [][replacements' = replacements]_vars

C14_Witness ==
    /\ Handled
    /\ emitted # <<>>
    /\ replacements # given
    /\ Len(replacements) = 3

(* C15: an active key that is neither backspace nor a delimiter key and    *)
(* carries no printable character leaves the buffer and the deadline       *)
(* unchanged and emits nothing.                                            *)
C15_NonPrintableIgnored ==
    (/\ WasActive
     /\ last.key.name \notin {"backspace", "space", "enter", "tab"}
     /\ (last.key.char = None \/ last.key.char = "")) =>
        /\ buffer = last.before
        /\ ignore_until = last.deadline
        /\ emitted = <<>>
        /\ screen = last.shown

C15_Witness ==
    /\ WasActive
    /\ last.key = KeyCode("")
    /\ last.before # <<>>
    /\ last.deadline > 0

(* C16: only an active delimiter event with a configured trigger a suffix  *)
(* of the buffer emits synthetic events and changes the deadline; it sets  *)
(* the deadline to a clock reading of that call + 0.2 s.  Every other      *)
(* event emits nothing and leaves the deadline unchanged.                  *)
C16_OnlyMatchEmits ==
    IF ActiveDelimiter /\ SuffixRules # {}
    THEN /\ emitted # <<>>
         /\ last.time + IgnoreDelay <= ignore_until
         /\ ignore_until <= now + IgnoreDelay
    ELSE /\ emitted = <<>>
         /\ ignore_until = (IF Handled THEN last.deadline ELSE 0)

C16_Witness ==
    /\ ActiveDelimiter
    /\ SuffixRules # {}
    /\ last.synthetic = FALSE
    /\ ignore_until = last.time + 1 + IgnoreDelay

DelimiterChars == {" ", "\n", "\t", ".", ",", "!", "?", ";", ":", ")", "]", "}"}

HasDelimiter(text) == \E k \in DOMAIN text : text[k] \in DelimiterChars

(* C17: the buffer never contains a delimiter character, and a rule whose  *)
(* trigger contains one is never applied.                                  *)
C17_NoDelimiterInBuffer ==
    /\ ~HasDelimiter(buffer)
    /\ \A i \in DOMAIN replacements :
           HasDelimiter(Trigger(i)) =>
               (~IsSuffix(Trigger(i), last.before) /\ ~Applies(i))

(* All of "im sorry" was typed outside the suppression window *)
C17_Witness ==
    /\ mode = "sorry"
    /\ todo = <<>>
    /\ WasActive
    /\ ~last.synthetic
    /\ last.before = <<"s", "o", "r", "r", "y">>
    /\ emitted = <<>>

(* C18: as long as no injected key was handled outside the suppression     *)
(* window, the buffer is a suffix of the visible text, and a match turns   *)
(* the visible text P T delimiter into P R delimiter.                      *)
C18_VisibleText ==
    ~leaked =>
        /\ IsSuffix(buffer, screen)
        /\ (ActiveDelimiter /\ SuffixRules # {}) =>
               LET t == Trigger(LongestSuffixRule)
                   r == Replacement(LongestSuffixRule)
                   d == DelimiterText(last.key)
                   n == Len(last.shown) - Len(t) - Len(d)
               IN  /\ n >= 0
                   /\ last.shown = SubSeq(last.shown, 1, n) \o t \o d
                   /\ screen = SubSeq(last.shown, 1, n) \o r \o d

C18_Witness ==
    /\ ~leaked
    /\ ActiveDelimiter
    /\ SuffixRules # {}
    /\ Len(Trigger(LongestSuffixRule)) = 1
    /\ Len(last.shown) = 3
    /\ screen # last.shown

(* C19: an active delimiter event that finds the buffer empty emits no     *)
(* synthetic event.                                                        *)
C19_EmptyBufferNoReplacement ==
    (ActiveDelimiter /\ last.before = <<>>) => emitted = <<>>

(* C20: the deadline starts at 0 and never decreases; whenever a call      *)
(* writes it, the call's clock reading was at or after the old deadline    *)
(* and the new deadline is strictly greater than the old one.              *)
C20_DeadlineIncreases ==
    IF ~Handled THEN ignore_until = 0
    ELSE /\ ignore_until >= last.deadline
         /\ (ignore_until # last.deadline \/ emitted # <<>>) =>
                /\ last.time >= last.deadline
                /\ ignore_until > last.deadline

(* the deadline is written a second time *)
C20_Witness ==
    /\ Handled
    /\ last.deadline > 0
    /\ ignore_until > last.deadline

====
